---- MODULE Spec2Model ----
(***************************************************************************)
(* A model of sb-notion's AsyncSBNotion client (sb_notion_async.py): the   *)
(* directory cache (pages and databases by id and by display name), its    *)
(* refresh by exhaustive pagination, the minimum-interval throttle and the *)
(* schema-drift check that a refresh of the databases listing performs.    *)
(*                                                                         *)
(* Callers are asyncio tasks sharing one client.  A task runs without      *)
(* interruption from one suspension point (an await that really suspends:  *)
(* a remote call or asyncio.sleep) to the next, so every action below is   *)
(* the code between two suspension points.                                 *)
(*                                                                         *)
(* Time is counted in hundredths of a second and kept relative to the      *)
(* current instant: datetime.now() is Now, a stored timestamp is its       *)
(* offset from now (-34: 0.34 s ago), and when time passes every stored    *)
(* timestamp moves back.  The code only compares the age of a timestamp    *)
(* with the request interval or the cache TTL, so a timestamp older than   *)
(* that is stored as exactly that old.  Optional values are sequences of   *)
(* length 0 or 1, and the absent cursor is NoCursor.                       *)
(***************************************************************************)
EXTENDS Integers, Sequences, FiniteSets, TLC

(* ------------------------------ bounds -------------------------------- *)
MaxCalls == 3          \* calls the callers make in one behaviour
MaxEvents == 1         \* events of the environment in one behaviour: a remote
                       \* call that fails, an edit of the remote workspace,
                       \* a lapse of the cache TTL
PageSize == 1          \* entries the remote returns per search response
MaxRequests == 2       \* requests of one pagination loop (adversarial transport)
MaxCursor == 2         \* cursor values of a response (adversarial transport)
MaxOptions == 1        \* options of a choice property of a hashed schema
MaxLabelLen == 3       \* characters of an option label turned into an enum key
MaxProps == 3          \* properties of a schema a class is generated for

(* ------------------------- program constants -------------------------- *)
MinRequestInterval == 34   \* _min_request_interval = 0.34 s
CacheTtl == 30000          \* _cache_ttl = timedelta(minutes=5)
NoCursor == 0              \* next_cursor = None
Now == 0                   \* datetime.now()
DatetimeMin == Now - (CacheTtl + 1)   \* datetime.min: older than the TTL

Tasks == {"t1", "t2"}
PageIds == {"p1", "p2"}
DbIds == {"d1", "d2"}
PageOrder == <<"p1", "p2">>
DbOrder == <<"d1", "d2">>

None == << >>
Some(x) == <<x>>

(* ------------------------------ schemas ------------------------------- *)
\* A JSON object is a Python dict: its keys in insertion order and the value
\* of each.  A property of a schema has the keys "type" and, for a choice
\* property, "options" (a list of labels); a schema is the "properties" object
\* of a database: property name -> property.
TitleProperty == [keys |-> <<"type">>, type |-> "title", options |-> << >>]

SelectProperty(keys, options) ==
    [keys |-> keys, type |-> "select", options |-> options]

TitleOnly == [keys |-> <<"Name">>, props |-> [n \in {"Name"} |-> TitleProperty]]

\* The schemas of the remote databases: a title alone, a title and a choice
\* property, and a schema without a title property.
Schemas ==
    {TitleOnly,
     [keys |-> <<"Name", "Status">>,
      props |-> [n \in {"Name", "Status"} |->
                    IF n = "Name" THEN TitleProperty
                    ELSE SelectProperty(<<"type", "options">>, <<"A">>)]],
     [keys |-> <<"Status">>,
      props |-> [n \in {"Status"} |->
                    SelectProperty(<<"type", "options">>, <<"A">>)]]}

\* Display titles of the remote entries: two pages share one title.
PageTitle == [p \in PageIds |-> "Notes"]
DbTitle == [d \in DbIds |-> IF d = "d1" THEN "Tasks" ELSE "Books"]

PageIdentifiers == {"p2", "Notes"}
DbIdentifiers == {"d1", "Tasks"}

(* ----------------------------- dictionaries --------------------------- *)
EmptyMap == [k \in {} |-> None]

\* dict[k] = v
Put(m, k, v) == [x \in (DOMAIN m) \cup {k} |-> IF x = k THEN v ELSE m[x]]

\* dict.get(k): None when the key is absent
Get(m, k) == IF k \in DOMAIN m THEN Some(m[k]) ELSE None

(* ------------------------------ the remote ---------------------------- *)
PageObject(p) == [id |-> p, title |-> PageTitle[p]]
DbObject(d) == [id |-> d, title |-> DbTitle[d]]
FullDb(d, s) == [id |-> d, title |-> DbTitle[d], schema |-> s]

RECURSIVE Filter(_, _)
Filter(order, present) ==
    IF order = << >> THEN << >>
    ELSE IF Head(order) \in present
         THEN <<Head(order)>> \o Filter(Tail(order), present)
         ELSE Filter(Tail(order), present)

\* The listing the remote search returns for an object kind.
Listing(rem, kind) ==
    IF kind = "pages"
    THEN [i \in 1..Len(Filter(PageOrder, rem.pages)) |->
              PageObject(Filter(PageOrder, rem.pages)[i])]
    ELSE [i \in 1..Len(Filter(DbOrder, rem.dbs)) |->
              DbObject(Filter(DbOrder, rem.dbs)[i])]

Min(a, b) == IF a < b THEN a ELSE b
Max(a, b) == IF a > b THEN a ELSE b

\* One response of the remote search: PageSize entries from the cursor on.
SearchResponse(rem, kind, start_cursor) ==
    LET all == Listing(rem, kind)
        from == IF start_cursor = NoCursor THEN 1 ELSE start_cursor
        to == Min(from + PageSize - 1, Len(all))
        more == from + PageSize <= Len(all)
    IN  [results |-> SubSeq(all, from, to),
         has_more |-> more,
         next_cursor |-> IF more THEN from + PageSize ELSE NoCursor]

(* ------------------------- the client's fields ------------------------ *)
\* AsyncSBNotion.__init__: empty caches, both timestamps at datetime.min.
NewClient ==
    [pages_by_id |-> EmptyMap, pages_by_name |-> EmptyMap,
     databases_by_id |-> EmptyMap, databases_by_name |-> EmptyMap,
     database_schemas |-> EmptyMap,
     last_cache_update |-> DatetimeMin,
     last_request_time |-> DatetimeMin]

\* What a caller can read of the directory cache.
Obs(self) ==
    [pages_by_id |-> self.pages_by_id, pages_by_name |-> self.pages_by_name,
     databases_by_id |-> self.databases_by_id,
     databases_by_name |-> self.databases_by_name]

should_refresh_cache(self, now) == now - self.last_cache_update > CacheTtl

\* Time passes: a timestamp moves d back, no further than the age from which
\* on the code treats all timestamps alike.
Shift(stamp, d, oldest) == Max(stamp - d, oldest)

ShiftClient(self, d) ==
    [self EXCEPT
        !.last_cache_update = Shift(@, d, DatetimeMin),
        !.last_request_time = Shift(@, d, Now - MinRequestInterval)]

(* ------------------------- the schema hash ---------------------------- *)
\* Python's order of the strings that occur as keys (by code point: capitals
\* before small letters).
KeyRank ==
    [k \in {"#", "2nd Rating", "Id", "Name", "Status", "Weird-Field!", "id",
            "options", "properties", "title", "type", "weird field"} |->
        CASE k = "#" -> 1 [] k = "2nd Rating" -> 2 [] k = "Id" -> 3
          [] k = "Name" -> 4 [] k = "Status" -> 5 [] k = "Weird-Field!" -> 6
          [] k = "id" -> 7 [] k = "options" -> 8 [] k = "properties" -> 9
          [] k = "title" -> 10 [] k = "type" -> 11 [] OTHER -> 12]

\* json.dumps without sort_keys: the keys stay in insertion order.
sort_keys_off(keys) == keys

\* json.dumps(..., sort_keys=True): the keys of every object in sorted order.
sort_keys(keys) == SortSeq(keys, LAMBDA a, b : KeyRank[a] < KeyRank[b])

\* The text json.dumps writes is a sequence of tokens: punctuation and strings.
RECURSIVE JoinItems(_)
JoinItems(items) ==
    IF items = << >> THEN << >>
    ELSE IF Len(items) = 1 THEN items[1]
    ELSE items[1] \o <<",">> \o JoinItems(Tail(items))

\* A list keeps the order of its elements.
dumps_array(list) ==
    <<"[">> \o JoinItems([i \in DOMAIN list |-> <<list[i]>>]) \o <<"]">>

\* A serialisation that leaves the options of a property out.
dumps_property_type_only(p) == <<"{", "type", ":", p.type, "}">>

dumps_property(p) ==
    LET keys == sort_keys(p.keys)
    IN  <<"{">>
        \o JoinItems([i \in DOMAIN keys |->
              <<keys[i], ":">>
              \o (IF keys[i] = "type" THEN <<p.type>> ELSE dumps_array(p.options))])
        \o <<"}">>

dumps_properties(schema) ==
    LET keys == sort_keys(schema.keys)
    IN  <<"{">>
        \o JoinItems([i \in DOMAIN keys |->
              <<keys[i], ":">> \o dumps_property(schema.props[keys[i]])])
        \o <<"}">>

\* json.dumps(schema, sort_keys=True) of a retrieved database object.
dumps(full_db) ==
    <<"{", "id", ":", full_db.id, ",", "properties", ":">>
    \o dumps_properties(full_db.schema)
    \o <<",", "title", ":", full_db.title, "}">>

\* hashlib.sha256(...).hexdigest(): the digest of a text, taken to be free of
\* collisions.
sha256(text) == <<"sha256">> \o text

\* SchemaGenerator.generate_schema_hash: the digest of the key-sorted
\* serialisation of the whole retrieved database object.
generate_schema_hash(full_db) == sha256(dumps(full_db))

\* The directory of the generated files: SchemaGenerator() without argument
\* (line 58) and Path("generated") (line 299).
OutputDir == "generated"

\* The stem of the generated file names: the title lowercased, spaces to "_".
FileStem ==
    [t \in {DbTitle[d] : d \in DbIds} |-> IF t = "Tasks" THEN "tasks" ELSE "books"]

(* ---------------------- the state of one pagination ------------------- *)
\* has_more, next_cursor and the start_cursor entry of kwargs.
PaginatedInit ==
    [has_more |-> TRUE, next_cursor |-> NoCursor, start_cursor |-> NoCursor]

\* if next_cursor: kwargs["start_cursor"] = next_cursor
PaginatedRequest(loop) ==
    [loop EXCEPT !.start_cursor =
        IF loop.next_cursor # NoCursor THEN loop.next_cursor ELSE @]

\* has_more = response["has_more"]
\* next_cursor = response["next_cursor"] if has_more else None
PaginatedResponse(loop, resp) ==
    [loop EXCEPT !.has_more = resp.has_more,
                 !.next_cursor = IF resp.has_more THEN resp.next_cursor
                                 ELSE NoCursor]

\* What is recorded about one pagination: the cursors requested, the items the
\* responses held, the items the consumer received, the request that failed
\* (0: none) and the first response without a continuation cursor (0: none).
NewListing(kind) ==
    [kind |-> kind, reqs |-> << >>, served |-> << >>, received |-> << >>,
     failed_at |-> 0, end_at |-> 0]

(* ------------------------------- a task ------------------------------- *)
IdleTask ==
    [pc |-> "idle", op |-> "none", identifier |-> "none", result |-> None,
     cont |-> "none", stage |-> "none", loop |-> PaginatedInit,
     items |-> << >>, resp |-> [has_more |-> FALSE, next_cursor |-> NoCursor],
     db |-> None, full_db |-> None, gen_from |-> "none", force |-> FALSE,
     cli_force |-> FALSE, output_dir |-> OutputDir,
     now_local |-> Now, wake_at |-> Now,
     \* history of the call, for the properties
     refreshes |-> 0, rid |-> 0, before |-> None, failed |-> FALSE,
     ends_seen |-> 0, overlapped |-> FALSE,
     lst |-> NewListing("none"), ended_pages |-> None, ended_dbs |-> None,
     throttle_done |-> FALSE, last_call |-> None, saw |-> {},
     checks |-> << >>, gens |-> << >>, outcomes |-> << >>, writes_seen |-> 0]

InRefresh(task) == task.before # None

\* Time passes for a task: the time it read and the end of its sleep.
ShiftTask(task, d) ==
    IF task.pc # "sleep" THEN task
    ELSE [task EXCEPT !.now_local = Shift(@, d, Now - MinRequestInterval),
                      !.wake_at = Shift(@, d, Now)]

ShiftHist(h, d) ==
    [h EXCEPT !.issue.last =
        IF @ = None THEN @ ELSE Some(Shift(@[1], d, Now - MinRequestInterval))]

NewHist ==
    [calls |-> 0, events |-> 0,
     rid |-> 0, ends |-> 0,
     issue |-> [last |-> None, gap |-> None],
     swap_pages |-> None, swap_dbs |-> None,
     last |-> None, stamp_failed |-> FALSE,
     gen |-> None, writes |-> 0, asked_force |-> FALSE]

(* ----------------------------- remote calls --------------------------- *)
\* A call of the remote transport is issued and the task suspends at pc.  The
\* history notes whether _handle_rate_limits ran since the task's previous
\* remote call, and the issue times of the throttled calls.
remote_call(ctx, api, pc) ==
    [ctx EXCEPT
        !.me.pc = pc,
        !.me.last_call = Some([api |-> api, throttled |-> ctx.me.throttle_done]),
        !.me.throttle_done = FALSE,
        !.hist.issue =
            IF ctx.me.throttle_done
            THEN [last |-> Some(ctx.now),
                  gap |-> IF @.last = None THEN None
                          ELSE Some(ctx.now - @.last[1])]
            ELSE @]

\* _handle_rate_limits, line 98: self._last_request_time = now, where now is the
\* time read on entry (before any sleep).
handle_rate_limits_record(ctx, now_local) ==
    [ctx EXCEPT !.self.last_request_time = now_local,
                !.me.throttle_done = TRUE]

\* _paginated_request, lines 186-190: the request of one iteration.
paginated_issue(ctx) ==
    LET loop == PaginatedRequest(ctx.me.loop)
    IN  remote_call([ctx EXCEPT !.me.loop = loop,
                                !.me.lst.reqs = Append(@, loop.start_cursor)],
                    "search", "search")

\* _paginated_request, lines 183-190, with _handle_rate_limits (lines 94-98): one
\* iteration up to its first suspension, the sleep or the request.
paginated_iteration(ctx) ==
    LET elapsed == ctx.now - ctx.self.last_request_time
    IN  IF elapsed < MinRequestInterval
        THEN [ctx EXCEPT !.me.pc = "sleep",
                         !.me.now_local = ctx.now,
                         !.me.wake_at = ctx.now + (MinRequestInterval - elapsed)]
        ELSE paginated_issue(handle_rate_limits_record(ctx, ctx.now))

\* _handle_rate_limits, lines 97-98, and the request: the sleep is over.
paginated_wake(ctx) ==
    paginated_issue(
        handle_rate_limits_record(
            [ctx EXCEPT !.me.now_local = Now, !.me.wake_at = Now],
            ctx.me.now_local))

\* _paginated_request, lines 177-183: a new pagination.
paginated_request(ctx, kind) ==
    paginated_iteration([ctx EXCEPT !.me.loop = PaginatedInit,
                                    !.me.stage = kind,
                                    !.me.lst = NewListing(kind)])

(* ------------------------------ the refresh --------------------------- *)
\* _fetch_all_pages, lines 110-113
fetch_all_pages(ctx) ==
    paginated_request([ctx EXCEPT !.self.pages_by_id = EmptyMap,
                                  !.self.pages_by_name = EmptyMap],
                      "pages")

\* _fetch_all_databases, lines 131-134
fetch_all_databases(ctx) ==
    paginated_request([ctx EXCEPT !.self.databases_by_id = EmptyMap,
                                  !.self.databases_by_name = EmptyMap],
                      "dbs")

\* _refresh_caches, lines 102-103: cont says which refresh of the call this is,
\* the one of the staleness check ("pre") or the one after a miss ("miss").
refresh_caches(ctx, cont) ==
    fetch_all_pages(
        [ctx EXCEPT !.me.cont = cont,
                    !.me.refreshes = @ + 1,
                    !.me.rid = ctx.hist.rid + 1,
                    !.hist.rid = @ + 1,
                    !.me.before = Some(Obs(ctx.self)),
                    !.me.failed = FALSE,
                    !.me.ends_seen = ctx.hist.ends,
                    !.me.overlapped = (ctx.busy # {}),
                    !.me.ended_pages = None,
                    !.me.ended_dbs = None,
                    !.me.checks = << >>,
                    !.me.gens = << >>,
                    !.me.outcomes = << >>,
                    !.me.writes_seen = ctx.hist.writes])

\* The call returns r.  A pure read (no refresh in this call) notes the
\* refreshes of other tasks that were in progress when it read the cache.
finish(ctx, r) ==
    [ctx EXCEPT !.me.pc = "done", !.me.result = r,
                !.me.saw = IF ctx.me.refreshes = 0 THEN ctx.busy ELSE {}]

\* The call ends by raising the error to its caller.
raise_error(ctx) == [ctx EXCEPT !.me.pc = "raised", !.me.result = None]

\* get_page, lines 214-223, up to the refresh after a miss
get_page_lookup(ctx) ==
    LET page == Get(ctx.self.pages_by_id, ctx.me.identifier)
        named == Get(ctx.self.pages_by_name, ctx.me.identifier)
    IN  IF page # None THEN finish(ctx, page)
        ELSE IF named # None THEN finish(ctx, named)
        ELSE refresh_caches(ctx, "miss")

\* get_database, lines 247-251: the schema check of the database found
get_database_found(ctx, db) ==
    IF db = None THEN finish(ctx, None)
    ELSE remote_call([ctx EXCEPT !.me.db = db], "databases.retrieve",
                     "retrieve_get")

\* get_database, lines 237-245, up to the refresh after a miss
get_database_lookup(ctx) ==
    LET db == Get(ctx.self.databases_by_id, ctx.me.identifier)
        named == Get(ctx.self.databases_by_name, ctx.me.identifier)
    IN  IF db # None THEN get_database_found(ctx, db)
        ELSE IF named # None THEN get_database_found(ctx, named)
        ELSE refresh_caches(ctx, "miss")

\* The generated files of one database are settled: what became of it is
\* noted for the properties.
note_outcome(ctx, outcome) ==
    [ctx EXCEPT !.me.outcomes = Append(@, [id |-> ctx.me.db[1].id,
                                          outcome |-> outcome]),
                !.hist.gen = IF outcome \in {"gen_error", "skipped", "generated"}
                             THEN Some([@[1] EXCEPT !.outcome = outcome])
                             ELSE @]

\* generate_classes (cli.py), lines 79-90: the loop over databases.values(),
\* calling generate_database_class(db["id"], force=force) for each.
cli_next(ctx) ==
    IF ctx.me.items = << >> THEN finish(ctx, None)
    ELSE LET db == Head(ctx.me.items)
         IN  remote_call(
                [ctx EXCEPT !.me.items = Tail(@),
                            !.me.db = Some(db),
                            !.me.gen_from = "cli",
                            !.me.force = ctx.me.cli_force,
                            !.me.gens = Append(@, [id |-> db.id,
                                                   force |-> ctx.me.cli_force])],
                "databases.retrieve", "retrieve_gen")

\* generate_classes (cli.py), lines 62-77: the databases accessor has returned
\* a copy of the by-id map; with no database the run ends, else the loop starts
\* over the values in the order they were stored.
cli_start(ctx) ==
    LET databases == ctx.self.databases_by_id
        ids == Filter(DbOrder, DOMAIN databases)
    IN  IF ids = << >> THEN finish(ctx, None)
        ELSE cli_next([ctx EXCEPT
                          !.me.items = [i \in 1..Len(ids) |-> databases[ids[i]]],
                          !.me.checks = << >>,
                          !.me.gens = << >>,
                          !.me.outcomes = << >>,
                          !.me.writes_seen = ctx.hist.writes])

\* x or y, on optional values
OrElse(x, y) == IF x # None THEN x ELSE y

\* The caller's code from the cache lookup on, entered after the staleness check
\* (with or without its refresh) and again after the refresh of a miss.
\* "await self._refresh_caches()" returns None: get_page line 219 tests
\* "not page and None" and so skips the retry of line 221, leaving page None;
\* get_database line 245 looks the identifier up again.
resume_call(ctx) ==
    CASE ctx.me.op = "get_page" ->
            IF ctx.me.cont # "miss" THEN get_page_lookup(ctx)
            ELSE finish(ctx, None)
      [] ctx.me.op = "get_database" ->
            IF ctx.me.cont # "miss" THEN get_database_lookup(ctx)
            ELSE get_database_found(ctx,
                    OrElse(Get(ctx.self.databases_by_id, ctx.me.identifier),
                           Get(ctx.self.databases_by_name, ctx.me.identifier)))
      [] ctx.me.op = "pages" -> finish(ctx, Some(ctx.self.pages_by_id))
      [] ctx.me.op = "cli" -> cli_start(ctx)
      [] OTHER -> finish(ctx, Some(ctx.self.databases_by_id))

\* _refresh_caches, line 105, and the return to the caller.  The history keeps
\* what the refresh that ended last did: the cache before and after, the listing
\* it obtained, whether a listing call failed, whether another refresh ran while
\* it did.
end_refresh(ctx) ==
    resume_call(
        [ctx EXCEPT
            !.self.last_cache_update = ctx.now,
            !.me.before = None,
            !.hist.ends = @ + 1,
            !.hist.stamp_failed = ctx.me.failed,
            !.hist.last = Some(
                [rid |-> ctx.me.rid,
                 failed |-> ctx.me.failed,
                 overlapped |-> \/ ctx.me.overlapped
                                \/ ctx.busy # {}
                                \/ ctx.hist.ends > ctx.me.ends_seen,
                 before |-> ctx.me.before[1],
                 after |-> Obs(ctx.self),
                 pages |-> ctx.me.ended_pages[1].received,
                 dbs |-> ctx.me.ended_dbs[1].received,
                 listed |-> ctx.me.ended_dbs[1].served,
                 checks |-> ctx.me.checks,
                 gens |-> ctx.me.gens,
                 outcomes |-> ctx.me.outcomes,
                 writes_seen |-> ctx.me.writes_seen,
                 files |-> ctx.files])])

\* The pagination is exhausted: _fetch_all_pages returns and _refresh_caches
\* goes on with _fetch_all_databases (line 104), or _fetch_all_databases returns.
end_listing(ctx) ==
    IF ctx.me.stage = "pages"
    THEN fetch_all_databases(
            [ctx EXCEPT
                !.me.ended_pages = Some(ctx.me.lst),
                !.hist.swap_pages = Some([rid |-> ctx.me.rid,
                                          old |-> ctx.me.before[1].pages_by_id,
                                          new |-> ctx.self.pages_by_id])])
    ELSE end_refresh(
            [ctx EXCEPT
                !.me.ended_dbs = Some(ctx.me.lst),
                !.hist.swap_dbs = Some([rid |-> ctx.me.rid,
                                        old |-> ctx.me.before[1].databases_by_id,
                                        new |-> ctx.self.databases_by_id])])

\* _paginated_request, lines 195-196 and the loop condition of line 183, once the
\* consumer has taken every item of the response.
after_items(ctx) ==
    LET loop == PaginatedResponse(ctx.me.loop, ctx.me.resp)
        c1 == [ctx EXCEPT !.me.loop = loop]
    IN  IF loop.has_more THEN paginated_iteration(c1) ELSE end_listing(c1)

\* A slip the loop could have: the error is logged and the loop goes on.
paginated_error_continue(ctx) == paginated_iteration(ctx)

\* _paginated_request, lines 198-200: the error is logged and the loop left.
paginated_error(ctx) == end_listing(ctx)

\* A slip the name index could have: the first page of a title is kept.
store_page_first_wins(self, page) ==
    LET s1 == [self EXCEPT !.pages_by_id = Put(@, page.id, page)]
    IN  IF page.title # "" /\ page.title \notin DOMAIN self.pages_by_name
        THEN [s1 EXCEPT !.pages_by_name = Put(@, page.title, page)]
        ELSE s1

\* _fetch_all_pages, lines 116-126, for one page
store_page(self, page) ==
    LET s1 == [self EXCEPT !.pages_by_id = Put(@, page.id, page)]
    IN  IF page.title # ""
        THEN [s1 EXCEPT !.pages_by_name = Put(@, page.title, page)]
        ELSE s1

RECURSIVE store_pages(_, _)
store_pages(self, pages) ==
    IF pages = << >> THEN self
    ELSE store_pages(store_page(self, Head(pages)), Tail(pages))

\* _fetch_all_databases, lines 137-150, for one database
store_database(self, db) ==
    LET s1 == [self EXCEPT !.databases_by_id = Put(@, db.id, db)]
    IN  IF db.title # ""
        THEN [s1 EXCEPT !.databases_by_name = Put(@, db.title, db)]
        ELSE s1

\* _fetch_all_databases, lines 134-154: the next database of the response is
\* stored and its full object retrieved for the schema check.
next_database(ctx) ==
    IF ctx.me.items = << >> THEN after_items(ctx)
    ELSE LET db == Head(ctx.me.items)
         IN  remote_call(
                [ctx EXCEPT !.self = store_database(@, db),
                            !.me.items = Tail(@),
                            !.me.db = Some(db),
                            !.me.lst.received = Append(@, db)],
                "databases.retrieve", "retrieve_drift")

\* _paginated_request, lines 190-193: a response arrives and its items are
\* yielded one by one to the loop of _fetch_all_pages or _fetch_all_databases.
on_search_response(ctx, resp) ==
    LET c1 == [ctx EXCEPT
                  !.me.resp = [has_more |-> resp.has_more,
                               next_cursor |-> resp.next_cursor],
                  !.me.lst.served = @ \o resp.results,
                  !.me.lst.end_at =
                      IF @ = 0 /\ resp.next_cursor = NoCursor
                      THEN Len(ctx.me.lst.reqs) ELSE @]
    IN  IF ctx.me.stage = "pages"
        THEN after_items([c1 EXCEPT !.self = store_pages(@, resp.results),
                                    !.me.lst.received = @ \o resp.results])
        ELSE next_database([c1 EXCEPT !.me.items = resp.results])

\* A transport failure of the search call: the except branch of line 198.
on_search_failure(ctx) ==
    paginated_error([ctx EXCEPT !.me.failed = TRUE,
                                !.me.lst.failed_at = Len(ctx.me.lst.reqs)])

(* ------------------------------ strings ------------------------------ *)
\* A string is the sequence of its characters.
Alphabet ==
    LET small == <<"a", "b", "c", "d", "e", "f", "g", "h", "i", "j", "k", "l", "m",
                   "n", "o", "p", "q", "r", "s", "t", "u", "v", "w", "x", "y", "z">>
        capital == <<"A", "B", "C", "D", "E", "F", "G", "H", "I", "J", "K", "L", "M",
                     "N", "O", "P", "Q", "R", "S", "T", "U", "V", "W", "X", "Y", "Z">>
    IN  [letters |-> {small[i] : i \in 1..26} \cup {capital[i] : i \in 1..26},
         upper |-> [c \in {small[i] : i \in 1..26} |->
                      capital[CHOOSE i \in 1..26 : small[i] = c]],
         lower |-> [c \in {capital[i] : i \in 1..26} |->
                      small[CHOOSE i \in 1..26 : capital[i] = c]]]

isdigit(c) == c \in {"0", "1", "2", "3", "4", "5", "6", "7", "8", "9"}
isalpha(c) == c \in Alphabet.letters
upper(c) == IF c \in DOMAIN Alphabet.upper THEN Alphabet.upper[c] ELSE c
lower(c) == IF c \in DOMAIN Alphabet.lower THEN Alphabet.lower[c] ELSE c

\* str.replace(old, new) for a single character old.
replace(str, old, new) == [i \in DOMAIN str |-> IF str[i] = old THEN new ELSE str[i]]

(* ------------------------------ enum keys ---------------------------- *)
\* The characters of an option label: digits, a small letter, the two signs
\* and the space.
LabelChars == {"1", "5", "8", "a", "+", "-", " "}

\* "".join(c for c in enum_key if c.isalnum() or c == "_"), line 240
RECURSIVE keep_identifier_chars(_)
keep_identifier_chars(str) ==
    IF str = << >> THEN << >>
    ELSE (IF isalpha(Head(str)) \/ isdigit(Head(str)) \/ Head(str) = "_"
          THEN <<Head(str)>> ELSE << >>)
         \o keep_identifier_chars(Tail(str))

\* The enum names generate_class_source builds (line 155): the field name,
\* already lowercased, followed by "Enum".
EnumNames ==
    {<<"s", "t", "a", "t", "u", "s", "E", "n", "u", "m">>,
     <<"r", "a", "t", "i", "n", "g", "E", "n", "u", "m">>}

\* A derivation that leaves out the filter of line 240.
enum_key_unfiltered(enum_name, value) ==
    LET plain == replace(replace([i \in DOMAIN value |-> upper(value[i])],
                                 " ", "_"), "-", "_")
    IN  IF isdigit(value[1]) \/ ~isalpha(value[1])
        THEN IF value[Len(value)] = "+"
             THEN <<"A", "G", "E", "_">> \o SubSeq(value, 1, Len(value) - 1)
                  \o <<"_", "P", "L", "U", "S">>
             ELSE IF value[1] = "-"
             THEN <<"A", "G", "E", "_">> \o Tail(value)
                  \o <<"_", "M", "I", "N", "U", "S">>
             ELSE <<"A", "G", "E", "_">> \o value
        ELSE plain

\* _generate_enum_class, lines 225-243: the key of one option label.
enum_key(enum_name, value) ==
    LET plain == replace(replace([i \in DOMAIN value |-> upper(value[i])],
                                 " ", "_"), "-", "_")
        special ==
            IF isdigit(value[1]) \/ ~isalpha(value[1])
            THEN IF value[Len(value)] = "+"
                 THEN <<"A", "G", "E", "_">> \o SubSeq(value, 1, Len(value) - 1)
                      \o <<"_", "P", "L", "U", "S">>
                 ELSE IF value[1] = "-"
                 THEN <<"A", "G", "E", "_">> \o Tail(value)
                      \o <<"_", "M", "I", "N", "U", "S">>
                 ELSE <<"A", "G", "E", "_">> \o value
            ELSE plain
        kept == keep_identifier_chars(special)
    IN  IF [i \in DOMAIN enum_name |-> lower(enum_name[i])]
              \in {<<"s", "e", "l", "e", "c", "t">>, <<"s", "t", "a", "t", "u", "s">>,
                   <<"t", "y", "p", "e">>}
        THEN [i \in DOMAIN enum_name |-> upper(enum_name[i])] \o <<"_">> \o kept
        ELSE kept

(* ------------------------- class generation --------------------------- *)
\* The characters of the property names and option labels of the schemas.
Chars ==
    [str \in {"Name", "Status", "Weird-Field!", "weird field", "2nd Rating",
              "#", "Id", "Watching", "Completed", "A", "B"} |->
        CASE str = "Name" -> <<"N", "a", "m", "e">>
          [] str = "Status" -> <<"S", "t", "a", "t", "u", "s">>
          [] str = "Weird-Field!" ->
                <<"W", "e", "i", "r", "d", "-", "F", "i", "e", "l", "d", "!">>
          [] str = "weird field" ->
                <<"w", "e", "i", "r", "d", " ", "f", "i", "e", "l", "d">>
          [] str = "2nd Rating" ->
                <<"2", "n", "d", " ", "R", "a", "t", "i", "n", "g">>
          [] str = "#" -> <<"#">>
          [] str = "Id" -> <<"I", "d">>
          [] str = "Watching" -> <<"W", "a", "t", "c", "h", "i", "n", "g">>
          [] str = "Completed" -> <<"C", "o", "m", "p", "l", "e", "t", "e", "d">>
          [] str = "A" -> <<"A">>
          [] OTHER -> <<"B">>]

\* The members of NotionPropertyType (notion_base.py).
NotionPropertyType ==
    {"title", "rich_text", "select", "multi_select", "date", "number",
     "checkbox", "url", "email", "phone_number", "formula", "relation",
     "rollup", "created_time", "created_by", "last_edited_time",
     "last_edited_by", "files", "people", "status", "unique_id"}

\* str.split(sep) for a single character sep.
RECURSIVE split(_, _)
split(str, sep) ==
    IF \A i \in DOMAIN str : str[i] # sep THEN <<str>>
    ELSE LET i == CHOOSE i \in DOMAIN str :
                     str[i] = sep /\ \A j \in 1..(i - 1) : str[j] # sep
         IN  <<SubSeq(str, 1, i - 1)>> \o split(SubSeq(str, i + 1, Len(str)), sep)

\* sep.join(items)
RECURSIVE join(_, _)
join(sep, items) ==
    IF items = << >> THEN << >>
    ELSE IF Len(items) = 1 THEN items[1]
    ELSE items[1] \o <<sep>> \o join(sep, Tail(items))

\* generate_class_source, lines 120-125 and 142-147: the field name of a
\* property name; field_name[0] of an empty name raises IndexError (None).
field_identifier(name) ==
    LET lowered == [i \in DOMAIN name |-> lower(name[i])]
        replaced == [i \in DOMAIN lowered |->
                        IF isalpha(lowered[i]) \/ isdigit(lowered[i]) \/ lowered[i] = "_"
                        THEN lowered[i] ELSE "_"]
        joined == join("_", SelectSeq(split(replaced, "_"), LAMBDA x : x # << >>))
    IN  IF joined = << >> THEN None
        ELSE IF isdigit(joined[1]) THEN Some(<<"f">> \o joined)
        ELSE Some(joined)

\* generate_class_source raises.
Raised(error) ==
    [raised |-> TRUE, error |-> error, source |-> << >>, metadata |-> << >>]

\* generate_class_source, lines 134-178 and 181-218: the properties from the
\* i-th on in the order of the keys, then the source text (the enum classes,
\* then the fields) and the metadata.
RECURSIVE source_fields(_, _, _, _)
source_fields(db_id, db, i, acc) ==
    LET keys == db.schema.keys
        prop_data == db.schema.props[keys[i]]
        field_name == field_identifier(Chars[keys[i]])
        enum_name == field_name[1] \o <<"E", "n", "u", "m">>
        choice == prop_data.type \in {"select", "multi_select", "status"}
    IN  IF i > Len(keys)
        THEN [raised |-> FALSE, error |-> "none",
              source |-> [db_id |-> db_id, enums |-> acc.enums, fields |-> acc.fields],
              metadata |-> [schema_hash |-> generate_schema_hash(db),
                            notion_db_id |-> db_id,
                            notion_db_name |-> db.title,
                            property_types |-> acc.property_types]]
        ELSE IF prop_data.type = "title" THEN source_fields(db_id, db, i + 1, acc)
        ELSE IF field_name = None THEN Raised("IndexError")
        ELSE IF prop_data.type \notin NotionPropertyType THEN Raised("ValueError")
        ELSE source_fields(db_id, db, i + 1,
                [fields |-> Append(acc.fields,
                                   [name |-> field_name[1],
                                    notion_type |-> prop_data.type,
                                    notion_name |-> keys[i],
                                    enum |-> IF choice THEN Some(enum_name) ELSE None]),
                 enums |-> IF choice
                           THEN Append(acc.enums,
                                  [name |-> enum_name,
                                   members |->
                                     [j \in DOMAIN prop_data.options |->
                                        [key |-> enum_key(enum_name,
                                                          Chars[prop_data.options[j]]),
                                         value |-> prop_data.options[j]]]])
                           ELSE acc.enums,
                 property_types |-> Put(acc.property_types, field_name[1],
                                        prop_data.type)])

\* A slip the title search could have: without a title property the class is
\* generated with the other fields alone.
generate_class_source_untitled(db_id, db) ==
    LET keys == db.schema.keys
        titles == {i \in DOMAIN keys : db.schema.props[keys[i]].type = "title"}
        title_prop_name == keys[CHOOSE i \in titles : \A j \in titles : i <= j]
        title_field_name == field_identifier(Chars[title_prop_name])
    IN  IF titles = {}
        THEN source_fields(db_id, db, 1,
                [fields |-> << >>, enums |-> << >>, property_types |-> EmptyMap])
        ELSE IF title_field_name = None THEN Raised("IndexError")
        ELSE source_fields(db_id, db, 1,
                [fields |-> <<[name |-> title_field_name[1],
                               notion_type |-> "title",
                               notion_name |-> title_prop_name,
                               enum |-> None]>>,
                 enums |-> << >>,
                 property_types |-> EmptyMap])

\* SchemaGenerator.generate_class_source, lines 110-132: the first property of
\* type title gives the title field; none is a ValueError.
generate_class_source(db_id, db) ==
    LET keys == db.schema.keys
        titles == {i \in DOMAIN keys : db.schema.props[keys[i]].type = "title"}
        title_prop_name == keys[CHOOSE i \in titles : \A j \in titles : i <= j]
        title_field_name == field_identifier(Chars[title_prop_name])
    IN  IF titles = {} THEN Raised("ValueError")
        ELSE IF title_field_name = None THEN Raised("IndexError")
        ELSE source_fields(db_id, db, 1,
                [fields |-> <<[name |-> title_field_name[1],
                               notion_type |-> "title",
                               notion_name |-> title_prop_name,
                               enum |-> None]>>,
                 enums |-> << >>,
                 property_types |-> EmptyMap])

(* --------------------- schema check and generation -------------------- *)
\* generate_class_source, lines 110-118: the schema has a title property.
has_title_property(schema) ==
    \E i \in DOMAIN schema.keys : schema.props[schema.keys[i]].type = "title"

\* After the schema check: _fetch_all_databases takes the next database,
\* get_database returns the full object (line 261), a direct call of
\* generate_database_class returns r, the loop of generate_classes goes on.
after_schema_check(ctx, r) ==
    CASE ctx.me.gen_from = "get" -> finish(ctx, ctx.me.full_db)
      [] ctx.me.gen_from = "direct" -> finish(ctx, r)
      [] ctx.me.gen_from = "cli" -> cli_next(ctx)
      [] OTHER -> next_database(ctx)

\* A slip the schema check could have: the hashes are not compared and the
\* class is generated for every database retrieved.
schema_check_always(ctx, full_db, from) ==
    LET db_id == ctx.me.db[1].id
        new_hash == generate_schema_hash(full_db)
        old_hash == Get(ctx.self.database_schemas, db_id)
    IN  remote_call(
            [ctx EXCEPT !.me.gen_from = from, !.me.full_db = Some(full_db),
                        !.me.checks = Append(@, [id |-> db_id,
                                                 old |-> old_hash,
                                                 new |-> new_hash]),
                        !.self.database_schemas = Put(@, db_id, new_hash),
                        !.me.force = TRUE,
                        !.me.gens = Append(@, [id |-> db_id, force |-> TRUE])],
            "databases.retrieve", "retrieve_gen")

\* _fetch_all_databases, lines 155-163, and get_database, lines 252-260: the hash
\* is recorded and generate_database_class(db_id, force=True) called, which
\* first retrieves the database again (line 293).
schema_check(ctx, full_db, from) ==
    LET db_id == ctx.me.db[1].id
        new_hash == generate_schema_hash(full_db)
        old_hash == Get(ctx.self.database_schemas, db_id)
        c1 == [ctx EXCEPT !.me.gen_from = from, !.me.full_db = Some(full_db),
                          !.me.checks = Append(@, [id |-> db_id,
                                                   old |-> old_hash,
                                                   new |-> new_hash])]
    IN  IF old_hash # Some(new_hash)
        THEN remote_call(
                [c1 EXCEPT !.self.database_schemas = Put(@, db_id, new_hash),
                           !.me.force = TRUE,
                           !.me.gens = Append(@, [id |-> db_id, force |-> TRUE])],
                "databases.retrieve", "retrieve_gen")
        ELSE after_schema_check(note_outcome(c1, "unchanged"), None)

\* A slip the except branches could have: the error is raised again.
schema_check_error_raise(ctx, from) == raise_error(ctx)

\* The except branches of lines 164 and 262: the error is logged;
\* _fetch_all_databases goes on, get_database returns the cached entry.
schema_check_error(ctx, from) ==
    IF from = "get" THEN finish(ctx, ctx.me.db)
    ELSE next_database(note_outcome(ctx, "retrieve_error"))

\* What a call of generate_database_class did, for the properties: its force
\* argument, the object retrieved (none: the retrieve failed), the generated
\* directory before and after, what it returned, and how it ended (noted with
\* the outcome).
note_generation(ctx, db, after, r) ==
    [ctx EXCEPT !.files = after,
                !.hist.writes = IF after # ctx.files THEN @ + 1 ELSE @,
                !.hist.gen = Some([force |-> ctx.me.force, db |-> db,
                                   before |-> ctx.files, after |-> after,
                                   result |-> r, outcome |-> "none"])]

\* A slip the gate could have: the force argument is not looked at.
generate_database_class_unforced(ctx, db) ==
    LET generated == generate_class_source(db.id, db)
        schema_hash == generated.metadata.schema_hash
        stem == FileStem[db.title]
        meta == Get(ctx.files, stem)
        written == Put(ctx.files, stem,
                       [schema_hash |-> schema_hash,
                        notion_db_id |-> db.id,
                        source |-> generated.source,
                        dir |-> OutputDir,
                        generated_at |-> ctx.hist.writes + 1])
    IN  IF generated.raised
        THEN after_schema_check(
                note_outcome(note_generation(ctx, Some(db), ctx.files, None),
                             "gen_error"), None)
        ELSE IF meta # None /\ meta[1].schema_hash = schema_hash
        THEN after_schema_check(
                note_outcome(note_generation(ctx, Some(db), ctx.files, None),
                             "skipped"), None)
        ELSE after_schema_check(
                note_outcome(note_generation(ctx, Some(db), written, Some(stem)),
                             "generated"), Some(stem))

\* generate_database_class, lines 296-310, once the database is retrieved:
\* the source is generated (an error ends the call with None), the sidecar is
\* compared unless force is set, and the files are written.
generate_database_class(ctx, db) ==
    LET generated == generate_class_source(db.id, db)
        schema_hash == generated.metadata.schema_hash
        stem == FileStem[db.title]
        meta == Get(ctx.files, stem)
        written == Put(ctx.files, stem,
                       [schema_hash |-> schema_hash,
                        notion_db_id |-> db.id,
                        source |-> generated.source,
                        dir |-> OutputDir,
                        generated_at |-> ctx.hist.writes + 1])
    IN  IF generated.raised
        THEN after_schema_check(
                note_outcome(note_generation(ctx, Some(db), ctx.files, None),
                             "gen_error"), None)
        ELSE IF ~ctx.me.force /\ meta # None /\ meta[1].schema_hash = schema_hash
        THEN after_schema_check(
                note_outcome(note_generation(ctx, Some(db), ctx.files, None),
                             "skipped"), None)
        ELSE after_schema_check(
                note_outcome(note_generation(ctx, Some(db), written, Some(stem)),
                             "generated"), Some(stem))

\* generate_database_class, lines 312-314: the retrieve failed; the error is
\* logged and None returned.
generate_database_class_error(ctx) ==
    after_schema_check(
        note_outcome(note_generation(ctx, None, ctx.files, None), "gen_error"),
        None)

(* ------------------------- the typed query loop ----------------------- *)
\* NotionBase.from_notion_page: the typed record of a page (its id envelope).
from_notion_page(page) == [id |-> page.id]

\* _query_database_impl, lines 416-419: the cursor entry of query_params
QueryRequest(loop) ==
    [loop EXCEPT !.start_cursor =
        IF loop.next_cursor # NoCursor THEN loop.next_cursor ELSE NoCursor]

\* _query_database_impl, lines 432-433
QueryResponse(loop, resp) ==
    [loop EXCEPT !.has_more = resp.has_more, !.next_cursor = resp.next_cursor]

\* _query_database_impl, lines 413-429: one iteration up to the request
query_iteration(ctx) ==
    LET loop == QueryRequest(ctx.me.loop)
    IN  remote_call([ctx EXCEPT !.me.loop = loop,
                                !.me.lst.reqs = Append(@, loop.start_cursor)],
                    "databases.query", "query")

\* _query_database_impl, lines 438-448: the pages are converted and returned.
query_return(ctx) ==
    finish([ctx EXCEPT !.me.ended_pages = Some(ctx.me.lst)],
           Some([i \in 1..Len(ctx.me.items) |-> from_notion_page(ctx.me.items[i])]))

\* _query_database_impl, lines 375-413: the schema is retrieved, the loop starts
\* with the caller's start_cursor still in query_params.
query_start(ctx) ==
    query_iteration(
        [ctx EXCEPT !.me.loop.has_more = TRUE,
                    !.me.loop.next_cursor = NoCursor,
                    !.me.items = << >>,
                    !.me.lst = NewListing("query")])

\* _query_database_impl, lines 449-452: the outer except branch returns [].
query_error(ctx) == finish(ctx, Some(<< >>))

\* _query_database_impl, lines 431-433 and the loop condition
on_query_response(ctx, resp) ==
    LET loop == QueryResponse(ctx.me.loop, resp)
        c1 == [ctx EXCEPT
                  !.me.loop = loop,
                  !.me.items = @ \o resp.results,
                  !.me.lst.served = @ \o resp.results,
                  !.me.lst.received = @ \o resp.results,
                  !.me.lst.end_at =
                      IF @ = 0 /\ resp.next_cursor = NoCursor
                      THEN Len(ctx.me.lst.reqs) ELSE @]
    IN  IF loop.has_more THEN query_iteration(c1) ELSE query_return(c1)

\* _query_database_impl, lines 434-436: the error is logged and the loop left.
on_query_failure(ctx) ==
    query_return([ctx EXCEPT !.me.lst.failed_at = Len(ctx.me.lst.reqs)])

(* ------------------------------ the state ----------------------------- *)
VARIABLES notion,   \* the fields of the AsyncSBNotion instance
          tasks,    \* the callers: position and locals of each
          remote,   \* the remote workspace
          files,    \* the generated directory: file stem -> metadata sidecar
          hist,     \* history, for the properties and the bounds
          calc      \* a call of a function of the schema generator: its
                    \* arguments and what it returned

vars == <<notion, tasks, remote, files, hist, calc>>

Cursors == 1..MaxCursor

\* No function of the schema generator has been called.
NoCall == [op |-> "none", args |-> << >>, result |-> None]

\* The responses a transport can give to the n-th request of a pagination:
\* the entries at the cursor asked for, with any has_more flag and any cursor
\* or none.  A pagination is cut off at MaxRequests requests.
AnyResponses(rem, kind, start_cursor, n) ==
    {[SearchResponse(rem, kind, start_cursor) EXCEPT !.has_more = h,
                                                      !.next_cursor = c] :
        h \in IF n < MaxRequests THEN BOOLEAN ELSE {FALSE},
        c \in {NoCursor} \cup Cursors}

RemoteStates ==
    [pages : SUBSET PageIds, dbs : SUBSET DbIds, schema : [DbIds -> Schemas]]

Init ==
    /\ notion = ShiftClient(NewClient, 0)
    /\ tasks = [t \in Tasks |-> IdleTask]
    /\ remote \in {r \in RemoteStates :
                     /\ "p1" \in r.pages /\ r.dbs = {"d1"}
                     /\ \A d \in DbIds : r.schema[d] = TitleOnly}
    /\ files = EmptyMap
    /\ hist = NewHist
    /\ calc = NoCall

\* The refreshes of the other tasks that are in progress.
Busy(t) == {tasks[u].rid : u \in {u \in Tasks \ {t} : InRefresh(tasks[u])}}

CtxOf(t, me) ==
    [self |-> notion, me |-> me, files |-> files, hist |-> hist, now |-> Now,
     busy |-> Busy(t)]

Ctx(t) == CtxOf(t, tasks[t])

Commit(t, c) ==
    /\ notion' = c.self
    /\ tasks' = [tasks EXCEPT ![t] = c.me]
    /\ files' = c.files
    /\ hist' = c.hist
    /\ UNCHANGED calc

\* The tasks are interchangeable: a new call takes the first free one (one
\* that has made no call yet or whose call has returned).
TaskRank == [t \in Tasks |-> IF t = "t1" THEN 1 ELSE 2]

Free(t) == tasks[t].pc \in {"idle", "done", "raised"}

\* A call starts: the staleness check of lines 211, 234, 270 and 277.
Begin(t, op, identifier) ==
    LET me == [IdleTask EXCEPT !.op = op, !.identifier = identifier]
        c0 == CtxOf(t, me)
        c1 == [c0 EXCEPT !.hist.calls = @ + 1]
    IN  /\ Free(t)
        /\ \A u \in Tasks : Free(u) => TaskRank[t] <= TaskRank[u]
        /\ hist.calls < MaxCalls
        /\ Commit(t, IF should_refresh_cache(notion, Now)
                     THEN refresh_caches(c1, "pre")
                     ELSE resume_call(c1))
        /\ UNCHANGED remote

(* ------------------------------ operations ---------------------------- *)
GetPage(t) == \E identifier \in PageIdentifiers : Begin(t, "get_page", identifier)

GetDatabase(t) ==
    \E identifier \in DbIdentifiers : Begin(t, "get_database", identifier)

Pages(t) == Begin(t, "pages", "none")

Databases(t) == Begin(t, "databases", "none")

\* asyncio.sleep of _handle_rate_limits ends (the earliest sleeper first); the
\* time read before the sleep is recorded and the request issued.
Wake(t) ==
    /\ tasks[t].pc = "sleep"
    /\ \A u \in Tasks : tasks[u].pc = "sleep" => tasks[t].wake_at <= tasks[u].wake_at
    /\ LET d == tasks[t].wake_at - Now
           c == paginated_wake(
                    [self |-> ShiftClient(notion, d),
                     me |-> ShiftTask(tasks[t], d),
                     files |-> files,
                     hist |-> ShiftHist(hist, d),
                     now |-> Now,
                     busy |-> Busy(t)])
       IN  /\ notion' = c.self
           /\ tasks' = [u \in Tasks |-> IF u = t THEN c.me ELSE ShiftTask(tasks[u], d)]
           /\ files' = c.files
           /\ hist' = c.hist
    /\ UNCHANGED <<remote, calc>>

\* The remote answers a search request from its current listing.
SearchReturns(t) ==
    /\ tasks[t].pc = "search"
    /\ Commit(t, on_search_response(Ctx(t),
                    SearchResponse(remote, tasks[t].stage,
                                   tasks[t].loop.start_cursor)))
    /\ UNCHANGED remote

\* The transport fails on a search request.
SearchFails(t) ==
    /\ tasks[t].pc = "search"
    /\ hist.events < MaxEvents
    /\ Commit(t, on_search_failure([Ctx(t) EXCEPT !.hist.events = @ + 1]))
    /\ UNCHANGED remote

RetrievePcs == {"retrieve_drift", "retrieve_get", "retrieve_gen", "retrieve_query"}

\* databases.retrieve answers with the full database object.
RetrieveReturns(t) ==
    LET me == tasks[t]
        d == me.db[1].id
        full_db == FullDb(d, remote.schema[d])
    IN  /\ me.pc \in RetrievePcs
        /\ d \in remote.dbs
        /\ Commit(t, CASE me.pc = "retrieve_drift" -> schema_check(Ctx(t), full_db, "drift")
                       [] me.pc = "retrieve_get" -> schema_check(Ctx(t), full_db, "get")
                       [] me.pc = "retrieve_query" -> query_start(Ctx(t))
                       [] OTHER -> generate_database_class(Ctx(t), full_db))
        /\ UNCHANGED remote

\* databases.retrieve fails: the transport, or the database is gone.
RetrieveFails(t) ==
    LET me == tasks[t]
        gone == me.db[1].id \notin remote.dbs
        c == [Ctx(t) EXCEPT !.hist.events = IF gone THEN @ ELSE @ + 1]
    IN  /\ me.pc \in RetrievePcs
        /\ gone \/ hist.events < MaxEvents
        /\ Commit(t, CASE me.pc = "retrieve_drift" -> schema_check_error(c, "drift")
                       [] me.pc = "retrieve_get" -> schema_check_error(c, "get")
                       [] me.pc = "retrieve_query" -> query_error(c)
                       [] OTHER -> generate_database_class_error(c))
        /\ UNCHANGED remote

\* Someone edits the remote workspace: a page or database appears or goes, or
\* a database's schema changes.
RemoteChange ==
    /\ hist.events < MaxEvents
    /\ \E r \in RemoteStates :
          /\ \/ /\ \E p \in PageIds : r.pages \in {remote.pages \cup {p}, remote.pages \ {p}}
                /\ r.dbs = remote.dbs /\ r.schema = remote.schema
             \/ /\ \E d \in DbIds : r.dbs \in {remote.dbs \cup {d}, remote.dbs \ {d}}
                /\ r.pages = remote.pages /\ r.schema = remote.schema
             \/ /\ r.pages = remote.pages /\ r.dbs = remote.dbs
          /\ r # remote
          /\ remote' = r
    /\ hist' = [hist EXCEPT !.events = @ + 1]
    /\ UNCHANGED <<notion, tasks, files, calc>>

\* query_database, lines 357-360, and _query_database_impl, line 374: the typed
\* query of a database, with the start_cursor the caller passes.
QueryDatabase(t) ==
    \E d \in DbIds, start_cursor \in {NoCursor} \cup Cursors :
        LET me == [IdleTask EXCEPT !.op = "query", !.identifier = d,
                                   !.db = Some(DbObject(d)),
                                   !.loop.start_cursor = start_cursor]
            c0 == CtxOf(t, me)
        IN  /\ Free(t)
            /\ hist.calls < MaxCalls
            /\ Commit(t, remote_call([c0 EXCEPT !.hist.calls = @ + 1],
                                     "databases.retrieve", "retrieve_query"))
            /\ UNCHANGED remote

\* The search call answers with the entries asked for and any has_more flag
\* and cursor.
AnySearchReturns(t) ==
    /\ tasks[t].pc = "search"
    /\ \E resp \in AnyResponses(remote, tasks[t].stage, tasks[t].loop.start_cursor,
                                 Len(tasks[t].lst.reqs)) :
          Commit(t, on_search_response(Ctx(t), resp))
    /\ UNCHANGED remote

\* databases.query answers with any response.
QueryReturns(t) ==
    /\ tasks[t].pc = "query"
    /\ \E resp \in AnyResponses(remote, "pages", tasks[t].loop.start_cursor,
                                 Len(tasks[t].lst.reqs)) :
          Commit(t, on_query_response(Ctx(t), resp))
    /\ UNCHANGED remote

\* The transport fails on a databases.query request.
QueryFails(t) ==
    /\ tasks[t].pc = "query"
    /\ hist.events < MaxEvents
    /\ Commit(t, on_query_failure([Ctx(t) EXCEPT !.hist.events = @ + 1]))
    /\ UNCHANGED remote

(* -------------------------- single-record writes --------------------- *)
\* _create_page_impl, lines 344-346: the error is logged and raised again.
create_page_error(ctx) == raise_error([ctx EXCEPT !.me.failed = TRUE])

\* update_page, lines 470-472: the error is logged and None returned.
update_page_error(ctx) == finish([ctx EXCEPT !.me.failed = TRUE], None)

\* create_page, lines 321-324, and _create_page_impl, lines 333-341: the
\* properties are converted and pages.create is called.
CreatePage(t) ==
    LET me == [IdleTask EXCEPT !.op = "create_page"]
        c0 == CtxOf(t, me)
    IN  /\ Free(t)
        /\ hist.calls < MaxCalls
        /\ Commit(t, remote_call([c0 EXCEPT !.hist.calls = @ + 1],
                                 "pages.create", "create"))
        /\ UNCHANGED remote

\* update_page, lines 456-458: the current page is retrieved first.
UpdatePage(t) ==
    \E page_id \in PageIds :
        LET me == [IdleTask EXCEPT !.op = "update_page", !.identifier = page_id]
            c0 == CtxOf(t, me)
        IN  /\ Free(t)
            /\ hist.calls < MaxCalls
            /\ Commit(t, remote_call([c0 EXCEPT !.hist.calls = @ + 1],
                                     "pages.retrieve", "update_retrieve"))
            /\ UNCHANGED remote

WritePcs == {"create", "update_retrieve", "update"}

\* The remote performs the write (pages.create makes a new page, line 343
\* returns it; pages.update returns the updated page, line 469) or answers
\* pages.retrieve, after which update_page calls pages.update (lines 461-467).
WriteReturns(t) ==
    LET me == tasks[t]
    IN  /\ me.pc \in WritePcs
        /\ CASE me.pc = "create" ->
                  \E p \in PageIds \ remote.pages :
                      /\ remote' = [remote EXCEPT !.pages = @ \cup {p}]
                      /\ Commit(t, finish(Ctx(t), Some(PageObject(p))))
             [] me.pc = "update_retrieve" ->
                  /\ me.identifier \in remote.pages
                  /\ Commit(t, remote_call(Ctx(t), "pages.update", "update"))
                  /\ UNCHANGED remote
             [] OTHER ->
                  /\ me.identifier \in remote.pages
                  /\ Commit(t, finish(Ctx(t), Some(PageObject(me.identifier))))
                  /\ UNCHANGED remote

\* The transport fails on a write or on the retrieve before it, or the page
\* to update is gone.
WriteFails(t) ==
    LET me == tasks[t]
        gone == me.pc # "create" /\ me.identifier \notin remote.pages
        c == [Ctx(t) EXCEPT !.hist.events = IF gone THEN @ ELSE @ + 1]
    IN  /\ me.pc \in WritePcs
        /\ gone \/ hist.events < MaxEvents
        /\ Commit(t, IF me.pc = "create" THEN create_page_error(c)
                     ELSE update_page_error(c))
        /\ UNCHANGED remote

(* --------------------------- class generation ------------------------ *)
\* generate_database_class called by the user: lines 281-293.
GenerateDatabaseClass(t) ==
    \E database_id \in DbIds, force \in BOOLEAN :
        LET me == [IdleTask EXCEPT !.op = "generate_database_class",
                                   !.identifier = database_id,
                                   !.db = Some(DbObject(database_id)),
                                   !.gen_from = "direct",
                                   !.force = force,
                                   !.gens = <<[id |-> database_id, force |-> force]>>]
            c0 == CtxOf(t, me)
        IN  /\ Free(t)
            /\ hist.calls < MaxCalls
            /\ Commit(t, remote_call(
                            [c0 EXCEPT !.hist.calls = @ + 1,
                                       !.hist.asked_force = @ \/ force],
                            "databases.retrieve", "retrieve_gen"))
            /\ UNCHANGED remote

\* generate_classes (cli.py), lines 61-63: a run of the command line tool, with
\* or without --force, constructs its own client and awaits its databases
\* accessor; the generated directory is the one earlier runs wrote.
GenerateClasses(t) ==
    \E force \in BOOLEAN :
        LET me == [IdleTask EXCEPT !.op = "cli", !.cli_force = force]
            c0 == [CtxOf(t, me) EXCEPT !.self = NewClient]
        IN  /\ \A u \in Tasks : Free(u)
            /\ hist.calls < MaxCalls
            /\ Commit(t, refresh_caches(
                            [c0 EXCEPT !.hist.calls = @ + 1,
                                       !.hist.asked_force = @ \/ force],
                            "pre"))
            /\ UNCHANGED remote

\* main (cli.py), lines 132-158: the tool is run with the options --force and
\* --output-dir; the directory is created and handed to generate_classes, which
\* constructs its client without it (line 61).
Main(t) ==
    \E force \in BOOLEAN, output_dir \in {OutputDir, "custom"} :
        LET me == [IdleTask EXCEPT !.op = "cli", !.cli_force = force,
                                   !.output_dir = output_dir]
            c0 == [CtxOf(t, me) EXCEPT !.self = NewClient]
        IN  /\ \A u \in Tasks : Free(u)
            /\ hist.calls < MaxCalls
            /\ Commit(t, refresh_caches(
                            [c0 EXCEPT !.hist.calls = @ + 1,
                                       !.hist.asked_force = @ \/ force],
                            "pre"))
            /\ UNCHANGED remote

\* The schema of a remote database is edited.
SchemaChange ==
    /\ hist.events < MaxEvents
    /\ \E d \in DbIds, s \in Schemas :
          /\ s # remote.schema[d]
          /\ remote' = [remote EXCEPT !.schema[d] = s]
    /\ hist' = [hist EXCEPT !.events = @ + 1]
    /\ UNCHANGED <<notion, tasks, files, calc>>

\* A page of the remote workspace appears or goes.
PageChange ==
    /\ hist.events < MaxEvents
    /\ \E p \in PageIds \ {"p1"} :
          remote' = [remote EXCEPT !.pages = IF p \in @ THEN @ \ {p} ELSE @ \cup {p}]
    /\ hist' = [hist EXCEPT !.events = @ + 1]
    /\ UNCHANGED <<notion, tasks, files, calc>>

\* More than the cache TTL passes.
Elapse ==
    /\ hist.events < MaxEvents
    /\ LET d == CacheTtl + 1
       IN  /\ notion' = ShiftClient(notion, d)
           /\ tasks' = [u \in Tasks |-> ShiftTask(tasks[u], d)]
           /\ hist' = [ShiftHist(hist, d) EXCEPT !.events = @ + 1]
    /\ UNCHANGED <<remote, files, calc>>

\* One caller: a single stream of operations on the client, over a transport
\* that may fail and a remote workspace that may change.
Next ==
    \/ GetPage("t1")
    \/ GetDatabase("t1")
    \/ Pages("t1")
    \/ Databases("t1")
    \/ Wake("t1")
    \/ SearchReturns("t1")
    \/ SearchFails("t1")
    \/ RetrieveReturns("t1")
    \/ RetrieveFails("t1")
    \/ CreatePage("t1")
    \/ UpdatePage("t1")
    \/ WriteReturns("t1")
    \/ WriteFails("t1")
    \/ RemoteChange
    \/ Elapse

Spec == Init /\ [][Next]_vars

\* Callers that share the client concurrently (asyncio tasks resolving pages
\* and reading the pages accessor), over a reliable transport, while a page of
\* the remote workspace may appear or go.
NextTasks ==
    \/ \E t \in Tasks : GetPage(t)
    \/ \E t \in Tasks : Pages(t)
    \/ \E t \in Tasks : Wake(t)
    \/ \E t \in Tasks : SearchReturns(t)
    \/ \E t \in Tasks : RetrieveReturns(t)
    \/ PageChange

SpecTasks == Init /\ [][NextTasks]_vars

\* One caller paginating over a transport that may answer anything: the
\* directory listings of a refresh and the typed query.
NextPaging ==
    \/ Pages("t1")
    \/ QueryDatabase("t1")
    \/ Wake("t1")
    \/ AnySearchReturns("t1")
    \/ SearchFails("t1")
    \/ RetrieveReturns("t1")
    \/ RetrieveFails("t1")
    \/ QueryReturns("t1")
    \/ QueryFails("t1")

SpecPaging == Init /\ [][NextPaging]_vars

\* A workspace of two databases, the first with any schema, a new client and
\* an empty generated directory.
InitDrift ==
    /\ notion = NewClient
    /\ tasks = [t \in Tasks |-> IdleTask]
    /\ remote \in {r \in RemoteStates : /\ r.pages = {"p1"} /\ r.dbs = DbIds
                                         /\ r.schema["d2"] = TitleOnly}
    /\ files = EmptyMap
    /\ hist = NewHist
    /\ calc = NoCall

\* One caller resolving pages and databases while the schemas may be edited:
\* the schema check of the refresh and of get_database.
NextDrift ==
    \/ GetPage("t1")
    \/ GetDatabase("t1")
    \/ Databases("t1")
    \/ Wake("t1")
    \/ SearchReturns("t1")
    \/ RetrieveReturns("t1")
    \/ RetrieveFails("t1")
    \/ SchemaChange
    \/ Elapse

SpecDrift == InitDrift /\ [][NextDrift]_vars

\* Class generation asked for by the user, directly or through runs of the
\* command line tool, while the schemas may be edited.
NextGenerate ==
    \/ GenerateDatabaseClass("t1")
    \/ GenerateClasses("t1")
    \/ Wake("t1")
    \/ SearchReturns("t1")
    \/ RetrieveReturns("t1")
    \/ RetrieveFails("t1")
    \/ SchemaChange

SpecGenerate == InitDrift /\ [][NextGenerate]_vars

\* Runs of the command line tool with its options, over a reliable transport.
\* A schema with a property of a type NotionPropertyType does not have.
UnrecognizedTag ==
    [keys |-> <<"Name", "Id">>,
     props |-> [n \in {"Name", "Id"} |->
                   IF n = "Name" THEN TitleProperty
                   ELSE [keys |-> <<"type">>, type |-> "button", options |-> << >>]]]

\* The workspace the command line tool runs against: as for the drift, and
\* the first database may have a property of an unrecognized type.
InitCli ==
    /\ notion = NewClient
    /\ tasks = [t \in Tasks |-> IdleTask]
    /\ \E r \in RemoteStates, s \in Schemas \cup {UnrecognizedTag} :
          /\ r.pages = {"p1"} /\ r.dbs = DbIds
          /\ r.schema["d2"] = TitleOnly
          /\ remote = [r EXCEPT !.schema["d1"] = s]
    /\ files = EmptyMap
    /\ hist = NewHist
    /\ calc = NoCall

NextCli ==
    \/ Main("t1")
    \/ Wake("t1")
    \/ SearchReturns("t1")
    \/ RetrieveReturns("t1")

SpecCli == InitCli /\ [][NextCli]_vars

(* ------------------- the functions of the schema generator ------------ *)

\* The orders in which a dict can hold the keys S.
KeyOrders(S) ==
    {o \in [1..Cardinality(S) -> S] : \A i, j \in DOMAIN o : o[i] = o[j] => i = j}

\* The schemas of one or two properties, each a title or a choice property
\* with a list of at most MaxOptions labels, with every order of the keys of
\* the schema and of each property.
OrderedSchemas ==
    LET OptionLists == UNION {[1..n -> {"A", "B"}] : n \in 0..MaxOptions}
        Properties ==
            {TitleProperty}
            \cup {SelectProperty(k, o) :
                     k \in KeyOrders({"type", "options"}), o \in OptionLists}
    IN  UNION {{[keys |-> k, props |-> f] :
                  k \in KeyOrders(ns), f \in [ns -> Properties]} :
                 ns \in (SUBSET {"Name", "Status"}) \ {{}}}

\* The database objects of two schemas are to be hashed.
InitHash ==
    /\ notion = NewClient
    /\ tasks = [t \in Tasks |-> IdleTask]
    /\ remote = [pages |-> {}, dbs |-> {}, schema |-> [d \in DbIds |-> TitleOnly]]
    /\ files = EmptyMap
    /\ hist = NewHist
    /\ calc \in {[op |-> "generate_schema_hash", args |-> <<s1, s2>>, result |-> None] :
                   s1 \in OrderedSchemas, s2 \in OrderedSchemas}

\* generate_schema_hash is called on each of the two.
GenerateSchemaHash ==
    /\ calc.op = "generate_schema_hash"
    /\ calc.result = None
    /\ calc' = [calc EXCEPT !.result =
                   Some(<<generate_schema_hash(FullDb("d1", calc.args[1])),
                          generate_schema_hash(FullDb("d1", calc.args[2]))>>)]
    /\ UNCHANGED <<notion, tasks, remote, files, hist>>

NextHash == GenerateSchemaHash

SpecHash == InitHash /\ [][NextHash]_vars

(* ------------------------------ properties --------------------------- *)

\* The paginations a task has a record of: the current one and those ended.
ListingsOf(task) ==
    {task.lst}
        \cup (IF task.ended_pages = None THEN {} ELSE {task.ended_pages[1]})
        \cup (IF task.ended_dbs = None THEN {} ELSE {task.ended_dbs[1]})

\* C1: when a listing call of a refresh failed (and no other refresh ran
\* meanwhile), every page and database entry cached before the refresh is still
\* in the by-id and by-name maps afterwards, with the same value.
C1_FailedRefreshKeepsCache ==
    \* Every entry of map old is in map new under the same key, with the same value.
    LET Retains(old, new) == \A k \in DOMAIN old : Get(new, k) = Some(old[k])
    IN
    (hist.last # None /\ hist.last[1].failed /\ ~hist.last[1].overlapped) =>
        LET before == hist.last[1].before
            after == hist.last[1].after
        IN  /\ Retains(before.pages_by_id, after.pages_by_id)
            /\ Retains(before.pages_by_name, after.pages_by_name)
            /\ Retains(before.databases_by_id, after.databases_by_id)
            /\ Retains(before.databases_by_name, after.databases_by_name)

\* C2: the value of _last_cache_update was never written by a refresh in which
\* a listing call failed.
C2_StampOnlyOnSuccess == ~hist.stamp_failed

\* C3: one call of get_page or get_database performs at most one refresh.
C3_AtMostOneRefreshPerCall ==
    \A t \in Tasks :
        tasks[t].op \in {"get_page", "get_database"} => tasks[t].refreshes <= 1

\* C4: when get_page or get_database refreshed after a miss and the listing
\* that refresh obtained holds an entry whose id or title is the identifier,
\* the call returns an entry with that id or title.
C4_MissRefreshReturnsListed ==
    \A t \in Tasks :
        LET me == tasks[t]
            listed == IF me.op = "get_page" THEN me.ended_pages ELSE me.ended_dbs
        IN  ( /\ me.pc = "done"
              /\ me.op \in {"get_page", "get_database"}
              /\ me.cont = "miss"
              /\ listed # None
              /\ \E i \in DOMAIN listed[1].received :
                    \/ listed[1].received[i].id = me.identifier
                    \/ listed[1].received[i].title = me.identifier )
            => /\ me.result # None
               /\ \/ me.result[1].id = me.identifier
                  \/ me.result[1].title = me.identifier

\* C5: a caller that read the pages accessor while exactly one refresh was in
\* progress got the by-id map as it was before that refresh or as that refresh
\* left it when its pages listing was complete.
C5_ReaderSeesOldOrNew ==
    \A t \in Tasks :
        LET me == tasks[t]
        IN  ( /\ me.pc = "done" /\ me.op = "pages" /\ me.refreshes = 0
              /\ Cardinality(me.saw) = 1
              /\ hist.swap_pages # None
              /\ hist.swap_pages[1].rid \in me.saw )
            => \/ me.result[1] = hist.swap_pages[1].old
               \/ me.result[1] = hist.swap_pages[1].new

\* C6: once no refresh is in progress, and the refresh that finished last
\* overlapped another, the caches hold exactly the entries of the listing that
\* this last refresh obtained.
C6_LastWriterWins ==
    \* The caches a refresh builds from the listings it obtained.
    LET CacheOf(pages, dbs) ==
            LET RECURSIVE store_databases(_, _)
                store_databases(self, ds) ==
                    IF ds = << >> THEN self
                    ELSE store_databases(store_database(self, Head(ds)), Tail(ds))
            IN  Obs(store_databases(store_pages(NewClient, pages), dbs))
    IN
    ( /\ \A t \in Tasks : ~InRefresh(tasks[t])
      /\ hist.last # None
      /\ hist.last[1].overlapped )
    => Obs(notion) = CacheOf(hist.last[1].pages, hist.last[1].dbs)

\* C7: every call of the remote transport is preceded by _handle_rate_limits.
C7_EveryCallThrottled ==
    \A t \in Tasks :
        tasks[t].last_call # None => tasks[t].last_call[1].throttled

\* C8: two consecutive throttled calls are issued at least the minimum request
\* interval apart.
C8_MinimumInterval ==
    hist.issue.gap # None => hist.issue.gap[1] >= MinRequestInterval

\* C9: a pagination loop issues no request after the first response that
\* carried no continuation cursor.
C9_StopsWithoutCursor ==
    \A t \in Tasks : \A l \in ListingsOf(tasks[t]) :
        l.end_at # 0 => Len(l.reqs) <= l.end_at

C11_DatabasesRaises ==
    \A t \in Tasks :
        ( /\ tasks[t].op = "databases"
          /\ tasks[t].failed
          /\ tasks[t].pc \in {"done", "raised"} )
        => tasks[t].pc = "raised"

\* C12: a create_page or update_page call during which the transport failed
\* ends by raising to the caller, not by returning.
C12_WriteFailureRaises ==
    \A t \in Tasks :
        ( /\ tasks[t].op \in {"create_page", "update_page"}
          /\ tasks[t].failed
          /\ tasks[t].pc \in {"done", "raised"} )
        => tasks[t].pc = "raised"

GenGate ==
    LET meta == Get(hist.gen[1].before, FileStem[hist.gen[1].db[1].title])
    IN  \/ hist.gen[1].force
        \/ meta = None
        \/ meta[1].schema_hash # generate_schema_hash(hist.gen[1].db[1])

\* C13: a call of generate_database_class that retrieved the database writes
\* the generated files exactly when force is set, or there is no sidecar, or
\* the sidecar's hash differs from the hash of the retrieved schema; when it
\* does not write it returns None and leaves the files as they were.
C13_WritesIffGate ==
    (hist.gen # None /\ hist.gen[1].db # None) =>
        /\ (hist.gen[1].after # hist.gen[1].before) <=> GenGate
        /\ ~(hist.gen[1].after # hist.gen[1].before) => hist.gen[1].result = None

\* C13 as amended: the same, for the calls whose class source is generated
\* without error; a call whose retrieve fails or whose schema has no title
\* property writes nothing and returns None.
C13_WritesIffGateUnlessError ==
    hist.gen # None =>
        IF hist.gen[1].db = None \/ ~has_title_property(hist.gen[1].db[1].schema)
        THEN ~(hist.gen[1].after # hist.gen[1].before) /\ hist.gen[1].result = None
        ELSE /\ (hist.gen[1].after # hist.gen[1].before) <=> GenGate
             /\ ~(hist.gen[1].after # hist.gen[1].before) => hist.gen[1].result = None
             /\ (hist.gen[1].after # hist.gen[1].before) =>
                   /\ hist.gen[1].result = Some(FileStem[hist.gen[1].db[1].title])
                   /\ hist.gen[1].after[FileStem[hist.gen[1].db[1].title]].schema_hash
                        = generate_schema_hash(hist.gen[1].db[1])

\* An unforced call found a sidecar with the hash of the retrieved schema and
\* left the files alone.
C13_Witness ==
    /\ hist.gen # None /\ hist.gen[1].db # None
    /\ has_title_property(hist.gen[1].db[1].schema)
    /\ ~hist.gen[1].force
    /\ ~GenGate
    /\ ~(hist.gen[1].after # hist.gen[1].before)

\* C14: as long as no caller has asked for force, a call of
\* generate_database_class that finds a sidecar with the hash of the retrieved
\* schema does not rewrite the generated files.
C14_UnchangedNotRewritten ==
    (~hist.asked_force /\ hist.gen # None /\ hist.gen[1].db # None) =>
        LET meta == Get(hist.gen[1].before, FileStem[hist.gen[1].db[1].title])
        IN  (meta # None
             /\ meta[1].schema_hash = generate_schema_hash(hist.gen[1].db[1]))
                => hist.gen[1].after = hist.gen[1].before

ExpectedGens(checks) ==
    LET ch == SelectSeq(checks, LAMBDA c : c.old # Some(c.new))
    IN  [i \in 1..Len(ch) |-> [id |-> ch[i].id, force |-> TRUE]]

C16_FailureIsPerDatabase ==
    \* The ids of a sequence of records.
    LET Ids(seq) == [i \in 1..Len(seq) |-> seq[i].id]
    IN
    /\ \A t \in Tasks :
          tasks[t].op \in {"databases", "get_database", "get_page", "cli"}
              => tasks[t].pc # "raised"
    /\ hist.last # None =>
          LET L == hist.last[1]
          IN  /\ \A d \in remote.dbs :
                    /\ Get(L.after.databases_by_id, d) = Some(DbObject(d))
                    /\ Get(L.after.databases_by_name, DbTitle[d]) = Some(DbObject(d))
              /\ Ids(L.outcomes) = Filter(DbOrder, remote.dbs)
              /\ \A i \in DOMAIN L.outcomes :
                    L.outcomes[i].outcome \notin {"retrieve_error", "gen_error"} \cup {"unchanged"} =>
                        LET stem == FileStem[DbTitle[L.outcomes[i].id]]
                        IN  /\ stem \in DOMAIN L.files
                            /\ L.files[stem].notion_db_id = L.outcomes[i].id
                            /\ L.files[stem].generated_at > L.writes_seen
    /\ \A t \in Tasks :
          (tasks[t].op = "cli" /\ tasks[t].pc = "done" /\ hist.last # None) =>
              Ids(tasks[t].outcomes) = Filter(DbOrder, remote.dbs)

\* A refresh in which the first database's check or generation failed and
\* the second database's class was generated.
C16_Witness ==
    /\ hist.last # None
    /\ Len(hist.last[1].outcomes) = 2
    /\ hist.last[1].outcomes[1].outcome \in {"retrieve_error", "gen_error"}
    /\ hist.last[1].outcomes[2].outcome = "generated"

(* ------------------------ generated classes --------------------------- *)

\* A generated class, by its notion_field declarations: the remote name, the
\* type tag, the default (the title field's is "", the others' None) and,
\* for the Enum-typed select field, the labels of its Enum.
RecordFields ==
    <<[notion_name |-> "Name", notion_type |-> "title",
       default |-> Some(""), options |-> {}],
      [notion_name |-> "Status", notion_type |-> "select",
       default |-> None, options |-> {"Watching", "Completed"}],
      [notion_name |-> "Rating", notion_type |-> "number",
       default |-> None, options |-> {}],
      [notion_name |-> "Done", notion_type |-> "checkbox",
       default |-> None, options |-> {}],
      [notion_name |-> "Link", notion_type |-> "url",
       default |-> None, options |-> {}],
      [notion_name |-> "Mail", notion_type |-> "email",
       default |-> None, options |-> {}]>>

\* NotionBase.to_notion_properties, lines 80-127, on an instance (remote name
\* of the field -> its value): a field whose value is None is skipped; a
\* title becomes a list of one text segment, a select the name of its label,
\* a number float(value) (the same number), a checkbox bool(value), a url
\* str(value); for a field of any other type there is no branch.
to_notion_properties(instance) ==
    LET emitted == {i \in DOMAIN RecordFields :
                      /\ instance[RecordFields[i].notion_name] # None
                      /\ RecordFields[i].notion_type
                           \in {"title", "select", "number", "checkbox", "url"}}
        wire(field) ==
            [type |-> field.notion_type,
             value |-> IF field.notion_type = "title"
                       THEN <<instance[field.notion_name][1]>>
                       ELSE instance[field.notion_name][1]]
    IN  [n \in {RecordFields[i].notion_name : i \in emitted} |->
            wire(RecordFields[CHOOSE i \in emitted :
                                 RecordFields[i].notion_name = n])]

\* NotionBase.from_notion_page, lines 169-232, for the declared fields:
\* fromisoformat raises on a page without created_time; a field keeps its
\* default unless the page has its
\* property; a title takes the content of the first segment (None for no
\* segment), a select the name, a number, checkbox or url the value; a value
\* that is not None is converted to the Enum of the field, which raises for
\* a label the Enum does not have, and set.
from_notion_page_fields(page) ==
    LET notion_value(field) == Get(page.properties, field.notion_name)
        value(field) ==
            IF notion_value(field) = None THEN None
            ELSE IF field.notion_type = "title"
            THEN IF notion_value(field)[1].value = << >> THEN None
                 ELSE Some(notion_value(field)[1].value[1])
            ELSE IF field.notion_type \in {"select", "number", "checkbox", "url"}
            THEN Some(notion_value(field)[1].value)
            ELSE None
    IN  IF ~page.created_time
           \/ \E i \in DOMAIN RecordFields :
                 /\ RecordFields[i].options # {}
                 /\ value(RecordFields[i]) # None
                 /\ value(RecordFields[i])[1] \notin RecordFields[i].options
        THEN [raised |-> TRUE, instance |-> << >>]
        ELSE [raised |-> FALSE,
              instance |->
                 [n \in {RecordFields[i].notion_name : i \in DOMAIN RecordFields} |->
                     LET field == RecordFields[CHOOSE i \in DOMAIN RecordFields :
                                                  RecordFields[i].notion_name = n]
                     IN  IF value(field) # None THEN value(field)
                         ELSE field.default]]

\* A class is to be generated for a database of one to MaxProps properties,
\* and for the same database with the keys of its schema in any order.
InitClass ==
    \* The names of the properties of such a schema, in the order the first of
    \* the two databases holds them.
    LET SourceNames ==
            <<"Name", "Status", "Weird-Field!", "weird field", "2nd Rating", "#", "Id">>
        \* The properties of a schema a class is generated for: of the types title,
        \* number and select, and of a type that is no member of NotionPropertyType.
        SourceProperties ==
            {[keys |-> <<"type">>, type |-> t, options |-> << >>] :
                t \in {"title", "number", "button"}}
            \cup {SelectProperty(<<"type", "options">>, <<"Watching", "Completed">>)}
    IN
    /\ notion = NewClient
    /\ tasks = [t \in Tasks |-> IdleTask]
    /\ remote = [pages |-> {}, dbs |-> {}, schema |-> [d \in DbIds |-> TitleOnly]]
    /\ files = EmptyMap
    /\ hist = NewHist
    /\ \/ \E names \in SUBSET {SourceNames[i] : i \in DOMAIN SourceNames} :
             /\ Cardinality(names) \in 1..MaxProps
             /\ \E props \in [names -> SourceProperties] :
                   \E k2 \in KeyOrders(names) :
                       calc = [op |-> "generate_class_source",
                               args |-> <<FullDb("d1", [keys |-> Filter(SourceNames, names),
                                                        props |-> props]),
                                          FullDb("d1", [keys |-> k2, props |-> props])>>,
                               result |-> None]
       \* an instance of the class: each field None or a value of its type
       \/ \E title \in {None, Some(""), Some("a")},
             status \in {None, Some("Watching")},
             rating \in {None, Some(0), Some(7)},
             done \in {None, Some(FALSE), Some(TRUE)},
             link \in {None, Some("u")},
             mail \in {None, Some("m")} :
             calc = [op |-> "to_notion_properties",
                     args |-> <<("Name" :> title) @@ ("Status" :> status)
                                @@ ("Rating" :> rating) @@ ("Done" :> done)
                                @@ ("Link" :> link) @@ ("Mail" :> mail)>>,
                     result |-> None]
       \* a remote page with the title (of one or two segments), select,
       \* number, checkbox and url properties present
       \/ \E title \in UNION {[1..n -> {"a", "b"}] : n \in 1..2},
             status \in {"Watching", "Other"},
             rating \in {0, 7},
             done \in BOOLEAN,
             created_time \in BOOLEAN :
             calc = [op |-> "from_notion_page",
                     args |-> <<[created_time |-> created_time,
                                 properties |->
                                    ("Name" :> [type |-> "title", value |-> title])
                                    @@ ("Status" :> [type |-> "select", value |-> status])
                                    @@ ("Rating" :> [type |-> "number", value |-> rating])
                                    @@ ("Done" :> [type |-> "checkbox", value |-> done])
                                    @@ ("Link" :> [type |-> "url", value |-> "u"])]>>,
                     result |-> None]

\* generate_class_source is called on each of the two.
GenerateClassSource ==
    /\ calc.op = "generate_class_source"
    /\ calc.result = None
    /\ calc' = [calc EXCEPT !.result =
                   Some(<<generate_class_source("d1", calc.args[1]),
                          generate_class_source("d1", calc.args[2])>>)]
    /\ UNCHANGED <<notion, tasks, remote, files, hist>>

\* to_notion_properties is called on the instance.
ToNotionProperties ==
    /\ calc.op = "to_notion_properties"
    /\ calc.result = None
    /\ calc' = [calc EXCEPT !.result = Some(to_notion_properties(calc.args[1]))]
    /\ UNCHANGED <<notion, tasks, remote, files, hist>>

\* from_notion_page is called on the page and, unless it raised,
\* to_notion_properties on the instance it returned.
FromNotionPage ==
    /\ calc.op = "from_notion_page"
    /\ calc.result = None
    /\ LET made == from_notion_page_fields(calc.args[1])
       IN  calc' = [calc EXCEPT !.result =
                       Some([raised |-> made.raised,
                             properties |-> IF made.raised THEN << >>
                                            ELSE to_notion_properties(made.instance)])]
    /\ UNCHANGED <<notion, tasks, remote, files, hist>>

NextClass == GenerateClassSource \/ ToNotionProperties \/ FromNotionPage

SpecClass == InitClass /\ [][NextClass]_vars

(* --------------------------- enum classes ---------------------------- *)
\* An enum class is to be generated for a choice property of one option, its
\* label of one to MaxLabelLen characters.
InitEnum ==
    /\ notion = NewClient
    /\ tasks = [t \in Tasks |-> IdleTask]
    /\ remote = [pages |-> {}, dbs |-> {}, schema |-> [d \in DbIds |-> TitleOnly]]
    /\ files = EmptyMap
    /\ hist = NewHist
    /\ calc \in {[op |-> "_generate_enum_class", args |-> <<n, <<v>>>>, result |-> None] :
                   n \in EnumNames,
                   v \in UNION {[1..k -> LabelChars] : k \in 1..MaxLabelLen}}

\* _generate_enum_class: a line "KEY = value" for every option.
GenerateEnumClass ==
    /\ calc.op = "_generate_enum_class"
    /\ calc.result = None
    /\ calc' = [calc EXCEPT !.result =
                   Some([i \in DOMAIN calc.args[2] |->
                           [key |-> enum_key(calc.args[1], calc.args[2][i]),
                            value |-> calc.args[2][i]]])]
    /\ UNCHANGED <<notion, tasks, remote, files, hist>>

NextEnum == GenerateEnumClass

SpecEnum == InitEnum /\ [][NextEnum]_vars

(* ----------------------- the schema hash, properties ------------------ *)

Elements(list) == {list[i] : i \in DOMAIN list}

\* Two schemas with the same properties, each of the same type and the same
\* options: they can differ only in the order of their keys.
SameContent(a, b) ==
    /\ Elements(a.keys) = Elements(b.keys)
    /\ \A n \in Elements(a.keys) :
          /\ Elements(a.props[n].keys) = Elements(b.props[n].keys)
          /\ a.props[n].type = b.props[n].type
          /\ a.props[n].options = b.props[n].options

\* C17: two schemas that contain the same properties, types and options and
\* differ only in the order of their mapping keys, of the schema or of a
\* property, have the same hash.
C17_HashIgnoresKeyOrder ==
    (calc.op = "generate_schema_hash" /\ calc.result # None
     /\ SameContent(calc.args[1], calc.args[2]))
        => calc.result[1][1] = calc.result[1][2]

\* Two schemas of two properties in opposite orders, the keys of a property in
\* opposite orders too, have been hashed.
C17_Witness ==
    /\ (calc.op = "generate_schema_hash" /\ calc.result # None)
    /\ SameContent(calc.args[1], calc.args[2])
    /\ Len(calc.args[1].keys) = 2
    /\ calc.args[1].keys # calc.args[2].keys
    /\ \E n \in Elements(calc.args[1].keys) :
          calc.args[1].props[n].keys # calc.args[2].props[n].keys

\* C18: a schema and a version of it modified in a property's type, a
\* property's name or the label set of a choice property's options never hash
\* equal.
C18_HashSeesModification ==
    \* One schema is a modified version of the other: a property was renamed,
    \* added or removed, or a property has another type or another set of option
    \* labels.
    LET Modified(a, b) ==
            \/ Elements(a.keys) # Elements(b.keys)
            \/ \E n \in Elements(a.keys) \cap Elements(b.keys) :
                  \/ a.props[n].type # b.props[n].type
                  \/ Elements(a.props[n].options) # Elements(b.props[n].options)
    IN
    (calc.op = "generate_schema_hash" /\ calc.result # None
     /\ Modified(calc.args[1], calc.args[2]))
        => calc.result[1][1] # calc.result[1][2]

\* Two schemas that differ only in the label of an option have been hashed.
C18_Witness ==
    /\ (calc.op = "generate_schema_hash" /\ calc.result # None)
    /\ Elements(calc.args[1].keys) = Elements(calc.args[2].keys)
    /\ \A n \in Elements(calc.args[1].keys) :
          calc.args[1].props[n].type = calc.args[2].props[n].type
    /\ \E n \in Elements(calc.args[1].keys) :
          /\ calc.args[1].props[n].options = <<"A">>
          /\ calc.args[2].props[n].options = <<"B">>

(* ------------------------- enum keys, properties ---------------------- *)

\* C20: the enum key of an option label whose first character is not a letter:
\* a label ending in "+" gives AGE_<rest>_PLUS, otherwise a label starting with
\* "-" gives AGE_<rest>_MINUS, any other gives AGE_ and the label, <rest> and
\* the label without their non-alphanumeric characters; the key consists of
\* alphanumeric characters and underscores only.
C20_SpecialCaseKeys ==
    \* The text without the characters that are neither letters, digits nor "_".
    LET Cleaned(str) == SelectSeq(str, LAMBDA c : isalpha(c) \/ isdigit(c) \/ c = "_")
    IN
    (calc.op = "_generate_enum_class" /\ calc.result # None) =>
        \A i \in DOMAIN calc.result[1] :
            LET value == calc.result[1][i].value
                key == calc.result[1][i].key
                n == Len(value)
            IN  ~isalpha(value[1]) =>
                  /\ key = <<"A", "G", "E", "_">>
                          \o (IF value[n] = "+"
                              THEN Cleaned(SubSeq(value, 1, n - 1))
                                   \o <<"_", "P", "L", "U", "S">>
                              ELSE IF value[1] = "-"
                              THEN Cleaned(SubSeq(value, 2, n))
                                   \o <<"_", "M", "I", "N", "U", "S">>
                              ELSE Cleaned(value))
                  /\ \A j \in DOMAIN key :
                        isalpha(key[j]) \/ isdigit(key[j]) \/ key[j] = "_"

\* The key of the label "18+" is AGE_18_PLUS.
C20_Witness ==
    /\ calc.op = "_generate_enum_class"
    /\ calc.result # None
    /\ calc.result[1][1].value = <<"1", "8", "+">>
    /\ calc.result[1][1].key = <<"A", "G", "E", "_", "1", "8", "_", "P", "L", "U", "S">>

(* ------------------------ entries of one title ------------------------ *)
\* C27: after a completed refresh the by-id map holds every page the listing
\* delivered, and the by-name map holds, for every title of the listing, the
\* page of that title that was processed last; the call does not raise.
C27_LastOfTitleWins ==
    /\ \A t \in Tasks :
          tasks[t].op \in {"pages", "get_page"} => tasks[t].pc # "raised"
    /\ hist.last # None =>
          LET L == hist.last[1]
          IN  \A i \in DOMAIN L.pages :
                /\ Get(L.after.pages_by_id, L.pages[i].id) = Some(L.pages[i])
                /\ (\A j \in DOMAIN L.pages : L.pages[j].title = L.pages[i].title => j <= i)
                      => Get(L.after.pages_by_name, L.pages[i].title) = Some(L.pages[i])

\* A refresh has ended whose listing held two pages of one title.
C27_Witness ==
    /\ hist.last # None
    /\ Len(hist.last[1].pages) = 2
    /\ hist.last[1].pages[1].id # hist.last[1].pages[2].id
    /\ hist.last[1].pages[1].title = hist.last[1].pages[2].title
    /\ DOMAIN hist.last[1].after.pages_by_id = {"p1", "p2"}
    /\ hist.last[1].after.pages_by_name[hist.last[1].pages[2].title].id = "p2"

(* ------------------- the recorded hash and generation ----------------- *)
\* C28: the hash recorded in _database_schemas for a database is recorded only
\* when the class generation for that schema succeeded: while no call is in
\* progress, every recorded hash is the hash of the generated files of its
\* database (so that a failed generation is detected again and retried).
C28_HashRecordedOnSuccess ==
    (\A t \in Tasks : Free(t)) =>
        \A d \in DOMAIN notion.database_schemas :
            /\ FileStem[DbTitle[d]] \in DOMAIN files
            /\ files[FileStem[DbTitle[d]]].schema_hash = notion.database_schemas[d]

(* -------------------------- the output directory --------------------- *)
\* C26: the files a run of the command line tool has written are in the
\* directory the run was configured with.
C26_OutputDirHonoured ==
    \A t \in Tasks :
        (tasks[t].op = "cli" /\ tasks[t].pc = "done") =>
            \A stem \in DOMAIN files :
                files[stem].generated_at > tasks[t].writes_seen
                    => files[stem].dir = tasks[t].output_dir

\* C23: a call of generate_database_class that retrieved a schema with no
\* title property, or with a property whose type is not a recognized tag,
\* ends with an error, returns None and leaves the generated files as they
\* were; and a class that is written has a field for every property of the
\* schema.
C23_BadSchemaFails ==
    (hist.gen # None /\ hist.gen[1].db # None) =>
        LET schema == hist.gen[1].db[1].schema
            stem == FileStem[hist.gen[1].db[1].title]
        IN  /\ (\/ ~has_title_property(schema)
                 \/ \E n \in DOMAIN schema.props :
                        schema.props[n].type \notin NotionPropertyType)
                => /\ hist.gen[1].outcome = "gen_error"
                   /\ hist.gen[1].after = hist.gen[1].before
                   /\ hist.gen[1].result = None
            /\ hist.gen[1].outcome = "generated"
                => \A n \in DOMAIN schema.props :
                      \E i \in DOMAIN hist.gen[1].after[stem].source.fields :
                          hist.gen[1].after[stem].source.fields[i].notion_name = n

\* The retrieved schema has a title and a property of an unrecognized type,
\* and the call ended with an error.
C23_Witness ==
    /\ hist.gen # None /\ hist.gen[1].db # None
    /\ hist.gen[1].db[1].schema = UnrecognizedTag
    /\ hist.gen[1].outcome = "gen_error"

\* C21: for a schema of a title property "Name" and a choice property
\* "Status" with the options Watching and Completed, generate_class_source
\* gives one enum, whose variants are STATUS_WATCHING and STATUS_COMPLETED.
C21_StatusVariantsPrefixed ==
    (calc.op = "generate_class_source" /\ calc.result # None) =>
        \A k \in 1..2 :
            LET schema == calc.args[k].schema
                r == calc.result[1][k]
            IN  (/\ DOMAIN schema.props = {"Name", "Status"}
                 /\ schema.props["Name"].type = "title"
                 /\ schema.props["Status"].type = "select"
                 /\ schema.props["Status"].options = <<"Watching", "Completed">>)
                => /\ ~r.raised
                   /\ Len(r.source.enums) = 1
                   /\ [j \in DOMAIN r.source.enums[1].members |->
                          r.source.enums[1].members[j].key]
                        = << <<"S", "T", "A", "T", "U", "S", "_",
                               "W", "A", "T", "C", "H", "I", "N", "G">>,
                             <<"S", "T", "A", "T", "U", "S", "_",
                               "C", "O", "M", "P", "L", "E", "T", "E", "D">> >>

\* C22: generate_class_source never fails on the name of a property, and the
\* identifier of every field is not empty, is made of lower-case letters,
\* digits and single inner underscores, does not start with a digit, and has
\* the letters and digits of the lower-cased property name in their order
\* (after an "f" when the name's first one is a digit); "Weird-Field!" gives
\* weird_field and "2nd Rating" gives f2nd_rating.
C22_IdentifierOfEveryName ==
    (calc.op = "generate_class_source" /\ calc.result # None) =>
        \A k \in 1..2 :
            LET r == calc.result[1][k]
                alnum(c) == isalpha(c) \/ isdigit(c)
                letters(str) == SelectSeq(str, alnum)
                lowered(name) == [i \in DOMAIN name |-> lower(name[i])]
                valid(id, name) ==
                    /\ id # << >>
                    /\ \A i \in DOMAIN id :
                          \/ isalpha(id[i]) /\ lower(id[i]) = id[i]
                          \/ isdigit(id[i])
                          \/ id[i] = "_" /\ 1 < i /\ i < Len(id) /\ id[i + 1] # "_"
                    /\ ~isdigit(id[1])
                    /\ letters(id) = IF isdigit(letters(name)[1])
                                     THEN <<"f">> \o letters(lowered(name))
                                     ELSE letters(lowered(name))
            IN  /\ r.error # "IndexError"
                /\ ~r.raised =>
                      \A i \in DOMAIN r.source.fields :
                          LET f == r.source.fields[i]
                          IN  /\ valid(f.name, Chars[f.notion_name])
                              /\ f.notion_name = "Weird-Field!" =>
                                    f.name = <<"w", "e", "i", "r", "d", "_",
                                               "f", "i", "e", "l", "d">>
                              /\ f.notion_name = "2nd Rating" =>
                                    f.name = <<"f", "2", "n", "d", "_",
                                               "r", "a", "t", "i", "n", "g">>

\* C29: in a generated class the identifiers of the fields are pairwise
\* distinct, none is a field of NotionBase, there is one field for every
\* property of the schema, and property_types has one entry for every
\* property that is not the title.
C29_DistinctFieldIdentifiers ==
    (calc.op = "generate_class_source" /\ calc.result # None) =>
        \A k \in 1..2 :
            LET schema == calc.args[k].schema
                r == calc.result[1][k]
                fields == r.source.fields
            IN  ~r.raised =>
                   /\ \A i, j \in DOMAIN fields :
                         fields[i].name = fields[j].name => i = j
                   /\ \A i \in DOMAIN fields :
                         fields[i].name \notin
                            {<<"i", "d">>,
                             <<"c", "r", "e", "a", "t", "e", "d", "_",
                               "t", "i", "m", "e">>,
                             <<"l", "a", "s", "t", "_", "e", "d", "i", "t", "e", "d",
                               "_", "t", "i", "m", "e">>,
                             <<"c", "r", "e", "a", "t", "e", "d", "_", "b", "y">>,
                             <<"l", "a", "s", "t", "_", "e", "d", "i", "t", "e", "d",
                               "_", "b", "y">>}
                   /\ Len(fields) = Len(schema.keys)
                   /\ Cardinality(DOMAIN r.metadata.property_types)
                        = Cardinality({n \in DOMAIN schema.props :
                                          schema.props[n].type # "title"})

\* C30: two databases that differ only in the order of the keys of their
\* schemas, and so have the same hash, get the same result from
\* generate_class_source: both fail, or both give the same source text.
C30_EqualHashEqualSource ==
    (calc.op = "generate_class_source" /\ calc.result # None) =>
        (generate_schema_hash(calc.args[1]) = generate_schema_hash(calc.args[2])
            => /\ calc.result[1][1].raised = calc.result[1][2].raised
               /\ calc.result[1][1].source = calc.result[1][2].source)

\* C24: to_notion_properties gives an entry, under the remote name and in
\* the wire form of the field's type, for exactly the declared fields whose
\* value is neither None nor the default of the field.
C24_EmitsExactlyTheSetFields ==
    (calc.op = "to_notion_properties" /\ calc.result # None) =>
        \A i \in DOMAIN RecordFields :
            LET field == RecordFields[i]
                value == calc.args[1][field.notion_name]
                properties == calc.result[1]
            IN  IF value # None /\ value # field.default
                THEN /\ field.notion_name \in DOMAIN properties
                     /\ properties[field.notion_name].type = field.notion_type
                     /\ properties[field.notion_name].value
                          = IF field.notion_type = "title" THEN <<value[1]>>
                            ELSE value[1]
                ELSE field.notion_name \notin DOMAIN properties

\* C25: from_notion_page on a page with the title, select, number, checkbox
\* and url properties present does not raise, and to_notion_properties of
\* its instance gives the properties of the page again.
C25_RoundTrip ==
    (calc.op = "from_notion_page" /\ calc.result # None) =>
        /\ ~calc.result[1].raised
        /\ calc.result[1].properties = calc.args[1].properties

====
